---------------------------- MODULE Spec2Model ----------------------------
(***************************************************************************)
(* A model of mfdls/medford_syntax.py: validate_syntax, which drives the   *)
(* MEDFORD parser over the lines of a document and converts the syntax     *)
(* errors the parser recorded into LSP diagnostics, and                    *)
(* _syntax_error_to_diagnostic, which recovers a column range for an error *)
(* by a regular-expression search of the offending line.                   *)
(*                                                                         *)
(* Text is a sequence of characters, each a string; "LF" stands for the   *)
(* line feed and "GRAVE" for the grave accent.  The 0-based indices of     *)
(* Python are kept in every value the program computes (line numbers,     *)
(* characters, match offsets).                                             *)
(*                                                                         *)
(* The parser (MEDFORD.medford_detail) and its error collector             *)
(* (MEDFORD.medford_error_mngr) are another package.  Three specifications *)
(* are given:                                                              *)
(*   Spec         one run of validate_syntax with a parser that is free:   *)
(*                at each call it returns any value, records errors (those *)
(*                of DriverErrors) against the lines it has been given, in *)
(*                any order, and may set the major-failure flag;           *)
(*   SpecResolve  _syntax_error_to_diagnostic alone, on any error of any   *)
(*                kind against any line of a document;                     *)
(*   SpecRepeat   runs of validate_syntax one after another with a parser  *)
(*                that is a function of its arguments and of the macro     *)
(*                dictionary.                                              *)
(***************************************************************************)
EXTENDS Integers, Sequences, FiniteSets

VARIABLES
    text_doc,          \* the Document passed in: [source, uri]
    source,            \* text_doc.source.splitlines()
    pc,                \* position of the program
    line_num,          \* index of the for loop of the tokenization
    detail_ret,        \* value returned by the most recent detail.FromLine
    details,           \* the token list
    err_mngr,          \* the error collector: [coll, has_major_parsing]
    diagnostics,       \* the diagnostics list
    macro_dictionary,  \* detail.macro_dictionary, shared by all calls
    result,            \* what validate_syntax returned, or the exception
    calls,             \* history: the calls of detail.FromLine of this run
    prev,              \* history: document and result of the previous run
    error,             \* argument of a lone _syntax_error_to_diagnostic call
    outcome            \* its outcome

vars == <<text_doc, source, pc, line_num, detail_ret, details, err_mngr,
          diagnostics, macro_dictionary, result, calls, prev, error, outcome>>

---------------------------------------------------------------------------
(* Bounds of the model. *)

\* most lines in a document
MaxLines == 2
\* most errors the parser records during one validate_syntax
MaxErrs == 2

---------------------------------------------------------------------------
(* Text. *)

LF == "LF"
\* the grave accent that starts the macro marker
Backtick == "GRAVE"
Whitespace == {" ", LF}

RECURSIVE Concat(_)
Concat(ss) == IF ss = <<>> THEN <<>> ELSE Head(ss) \o Concat(Tail(ss))

\* every sequence over S of length 0..n
SeqsUpTo(S, n) == UNION {[1..k -> S] : k \in 0..n}

\* Python's s[a:b] for 0 <= a <= b <= len(s)
Slice(s, a, b) == SubSeq(s, a + 1, b)

\* str.splitlines(): the text cut at each line feed; the text after the last
\* line feed is a line only when it is not empty.
RECURSIVE SplitFrom(_, _, _)
SplitFrom(text, i, cur) ==
    IF i > Len(text)
    THEN IF cur = <<>> THEN <<>> ELSE <<cur>>
    ELSE IF text[i] = LF
         THEN <<cur>> \o SplitFrom(text, i + 1, <<>>)
         ELSE SplitFrom(text, i + 1, Append(cur, text[i]))

splitlines(text) == SplitFrom(text, 1, <<>>)

\* str.strip(): leading and trailing whitespace removed
RECURSIVE lstrip(_)
lstrip(s) ==
    IF s # <<>> /\ Head(s) \in Whitespace THEN lstrip(Tail(s)) ELSE s

RECURSIVE rstrip(_)
rstrip(s) ==
    IF s # <<>> /\ s[Len(s)] \in Whitespace
    THEN rstrip(SubSeq(s, 1, Len(s) - 1)) ELSE s

strip(s) == rstrip(lstrip(s))

\* list indexing, source[i]: a negative index counts from the end
InIndexRange(seq, i) == i < Len(seq) /\ i >= 0 - Len(seq)
PyIndex(seq, i) == IF i >= 0 THEN seq[i + 1] ELSE seq[Len(seq) + i + 1]

---------------------------------------------------------------------------
(* re.search.                                                              *)
(* A pattern is a sequence of alternatives [behind, body, ahead]: the body *)
(* matches at offset i when it is preceded by the text behind (a         *)
(* lookbehind) and followed by the text ahead (a lookahead).  A body is  *)
(* a sequence of elements, each a literal character or AnyChar.  A substring   *)
(* of an error is put into the pattern as it is, so its characters are     *)
(* pattern syntax: "." is AnyChar, "(" opens a group that nothing closes, and  *)
(* the pattern does not compile (re.error).                                *)

AnyChar == "ANY"
NoMatch == [found |-> FALSE, start |-> 0, end |-> 0]
Match(s, e) == [found |-> TRUE, start |-> s, end |-> e]

\* the elements a substring stands for once it is part of a pattern
Interpolate(substr) ==
    [k \in 1..Len(substr) |-> IF substr[k] = "." THEN AnyChar ELSE substr[k]]

\* the pattern compiles
Compiles(substr) == \A k \in 1..Len(substr) : substr[k] # "("



ElemMatches(p, c) == p = AnyChar \/ p = c

\* the alternative matches at offset i (0-based) of line
AltMatchesAt(alt, line, i) ==
    /\ i >= Len(alt.behind)
    /\ i + Len(alt.body) + Len(alt.ahead) <= Len(line)
    /\ Slice(line, i - Len(alt.behind), i) = alt.behind
    /\ \A k \in 1..Len(alt.body) : ElemMatches(alt.body[k], line[i + k])
    /\ Slice(line, i + Len(alt.body), i + Len(alt.body) + Len(alt.ahead))
         = alt.ahead

\* the first alternative that matches at i, 0 if none
RECURSIVE FirstAlt(_, _, _, _)
FirstAlt(alts, line, i, a) ==
    IF a > Len(alts) THEN 0
    ELSE IF AltMatchesAt(alts[a], line, i) THEN a
    ELSE FirstAlt(alts, line, i, a + 1)

\* the scan of re.search: offsets in ascending order, the first that matches
RECURSIVE ScanFrom(_, _, _)
ScanFrom(alts, line, i) ==
    IF i > Len(line) THEN NoMatch
    ELSE LET a == FirstAlt(alts, line, i, 1)
         IN IF a # 0 THEN Match(i, i + Len(alts[a].body))
            ELSE ScanFrom(alts, line, i + 1)

\* a scan from the end of the line: the last offset that matches
RECURSIVE ScanBack(_, _, _)
ScanBack(alts, line, i) ==
    IF i < 0 THEN NoMatch
    ELSE LET a == FirstAlt(alts, line, i, 1)
         IN IF a # 0 THEN Match(i, i + Len(alts[a].body))
            ELSE ScanBack(alts, line, i - 1)

re_search_last(alts, line) == ScanBack(alts, line, Len(line))

re_search(alts, line) == ScanFrom(alts, line, 0)

\* line 142: the macro after the marker, or after marker and brace and
\* before the closing brace
UnexpectedMacroPattern(macro) ==
    << [behind |-> <<Backtick, "@">>, body |-> Interpolate(macro), ahead |-> <<>>],
       [behind |-> <<Backtick, "@", "{">>, body |-> Interpolate(macro),
        ahead |-> <<"}">>] >>

\* lines 160-161: marker, then the macro
DuplicatedMacroPattern(macro) ==
    << [behind |-> <<>>, body |-> <<Backtick, "@">> \o Interpolate(macro),
        ahead |-> <<>>] >>

\* line 195: a bracket, any two characters, a closing bracket
RemainingTemplatePattern ==
    << [behind |-> <<>>, body |-> <<"[", AnyChar, AnyChar, "]">>, ahead |-> <<>>] >>

\* line 202: the at sign, then the substring
NoDescPattern(substr) ==
    << [behind |-> <<>>, body |-> <<"@">> \o Interpolate(substr),
        ahead |-> <<>>] >>

\* line 209: an apostrophe, then the at sign
WrongMacroTokenPattern ==
    << [behind |-> <<>>, body |-> <<"'", "@">>, ahead |-> <<>>] >>

---------------------------------------------------------------------------
(* LSP values. *)

Position(l, c) == [line |-> l, character |-> c]
Range(s, e) == [start |-> s, end |-> e]
NoRelated == <<>>

\* the outcome of a call: the value returned, or the exception raised
Returned(d) == [raised |-> FALSE, exc |-> "", diag |-> d]
Raised(e) == [raised |-> TRUE, exc |-> e, diag |-> <<>>]

\* the Diagnostic built before the refinement
BaseDiagnostic(err) ==
    [range |-> Range(Position(err.lineno - 1, 0), Position(err.lineno, 0)),
     severity |-> "Error",
     code |-> err.errtype,
     source |-> "MEDFORD",
     message |-> err.msg,
     related_information |-> NoRelated]

\* the end of the range one character too far
MatchRangePastEnd(l, m) ==
    Range(Position(l, m.start), Position(l, m.end + 1))

\* the range of a match on one line
MatchRange(l, m) == Range(Position(l, m.start), Position(l, m.end))

\* diag with its range narrowed to the match, when there is one
Narrow(diag, l, m) ==
    IF m.found THEN [diag EXCEPT !.range = MatchRange(l, m)] ELSE diag

\* the offset past the marker left out
DuplicatedStartAtMarker(first_match) == first_match.start

\* the character the primary range of a duplicated macro starts at
DuplicatedStart(first_match) == first_match.start + 2

\* the range and the related information of lines 164-189: m1 the match on
\* line first (the earlier one), m2 the match on line l (the offending one)
DuplicatedNarrowed(diag, first, m1, l, m2, uri) ==
    [diag EXCEPT
        !.range = Range(Position(first, DuplicatedStart(m1)),
                        Position(first, m1.end)),
        !.related_information =
            << [location |-> [uri |-> uri, range |-> MatchRange(l, m2)],
                message |-> "Earlier definition of macro"] >>]

\* narrowed as soon as the earlier line matches
DuplicatedDiagnosticPartial(diag, first, m1, l, m2, uri) ==
    IF m1.found THEN DuplicatedNarrowed(diag, first, m1, l, m2, uri) ELSE diag

\* line 163: narrowed only when both searches matched
DuplicatedDiagnostic(diag, first, m1, l, m2, uri) ==
    IF m1.found /\ m2.found
    THEN DuplicatedNarrowed(diag, first, m1, l, m2, uri) ELSE diag

_syntax_error_to_diagnostic(err, src, uri) ==
    LET line_number == err.lineno - 1 IN
    IF ~InIndexRange(src, line_number) THEN Raised("IndexError")
    ELSE
    LET line_text == PyIndex(src, line_number)
        diag == BaseDiagnostic(err)
    IN
    CASE err.kind = "unexpected_macro" ->
           IF ~Compiles(err.substr) THEN Raised("re.error")
           ELSE Returned(Narrow(diag, line_number,
                    re_search(UnexpectedMacroPattern(err.substr), line_text)))
      [] err.kind = "duplicated_macro" ->
           LET first_occourance == err.earlier_lineno - 1 IN
           IF ~InIndexRange(src, first_occourance) THEN Raised("IndexError")
           ELSE IF ~Compiles(err.substr) THEN Raised("re.error")
           ELSE Returned(DuplicatedDiagnostic(diag, first_occourance,
                    re_search(DuplicatedMacroPattern(err.substr),
                              PyIndex(src, first_occourance)),
                    line_number,
                    re_search(DuplicatedMacroPattern(err.substr), line_text),
                    uri))
      [] err.kind = "remaining_template" ->
           Returned(Narrow(diag, line_number,
                    re_search(RemainingTemplatePattern, line_text)))
      [] err.kind = "no_desc" ->
           IF ~Compiles(err.substr) THEN Raised("re.error")
           ELSE Returned(Narrow(diag, line_number,
                    re_search(NoDescPattern(err.substr), line_text)))
      [] err.kind = "wrong_macro_token" ->
           Returned(Narrow(diag, line_number,
                    re_search(WrongMacroTokenPattern, line_text)))
      [] OTHER -> Returned(diag)


---------------------------------------------------------------------------
(* The parser's values. *)

None == [type |-> "NoneType", is_novel |-> FALSE, detail |-> 0]
detail_return(novel, d) ==
    [type |-> "detail_return", is_novel |-> novel, detail |-> d]

\* an mfd_syntax_err; a class without the field has it at a fixed value
SyntaxErr(kind, lineno, msg, substr, earlier) ==
    [kind |-> kind, errtype |-> kind, lineno |-> lineno, msg |-> msg,
     substr |-> substr, earlier_lineno |-> earlier]

\* error_mngr("ALL", "LINE"): nothing recorded
error_mngr == [coll |-> <<>>, has_major_parsing |-> FALSE]

\* the collector's dictionary keeps its keys in the order of their first
\* insertion, and each key's errors in the order of theirs
add_syntax_err(mngr, err) ==
    IF \E k \in 1..Len(mngr.coll) : mngr.coll[k].lineno = err.lineno
    THEN [mngr EXCEPT !.coll =
            [k \in 1..Len(mngr.coll) |->
                IF mngr.coll[k].lineno = err.lineno
                THEN [mngr.coll[k] EXCEPT !.row = Append(@, err)]
                ELSE mngr.coll[k]]]
    ELSE [mngr EXCEPT !.coll =
            Append(@, [lineno |-> err.lineno, row |-> <<err>>])]

RECURSIVE add_all(_, _)
add_all(mngr, errs) ==
    IF errs = <<>> THEN mngr
    ELSE add_all(add_syntax_err(mngr, Head(errs)), Tail(errs))

\* the errors of the collector, row after row
RECURSIVE Rows(_)
Rows(coll) == IF coll = <<>> THEN <<>> ELSE Head(coll).row \o Rows(Tail(coll))

NumErrors(mngr) == Len(Rows(mngr.coll))

---------------------------------------------------------------------------
(* Inputs. *)

Uri == "file:///doc.mfd"

\* the lines joined by line feeds
RECURSIVE Join(_)
Join(ls) ==
    IF ls = <<>> THEN <<>>
    ELSE IF Len(ls) = 1 THEN Head(ls)
    ELSE Head(ls) \o <<LF>> \o Join(Tail(ls))

\* the documents of at most n lines drawn from lineSet, with and without a
\* line feed at the end
Documents(lineSet, n) ==
    {[source |-> Join(ls) \o tl, uri |-> Uri] :
        ls \in SeqsUpTo(lineSet, n), tl \in {<<>>, <<LF>>}}

\* the documents of at most n lines drawn from lineSet, every line ended by a
\* line feed
Terminated(lineSet, n) ==
    {[source |-> Concat([k \in 1..Len(ls) |-> ls[k] \o <<LF>>]), uri |-> Uri] :
        ls \in SeqsUpTo(lineSet, n)}

\* the offending substrings: two names, and two that are pattern syntax
Substrs == {<<"a">>, <<"a", "b">>, <<".">>, <<"(">>}

\* the errors a parser may record against lines 1..n, message m
ErrorsFor(n, m, substrs) ==
    {SyntaxErr(k, l, m, <<>>, 0) :
        k \in {"remaining_template", "wrong_macro_token", "other"},
        l \in 1..n}
    \cup {SyntaxErr(k, l, m, s, 0) :
        k \in {"unexpected_macro", "no_desc"}, l \in 1..n, s \in substrs}
    \cup {SyntaxErr("duplicated_macro", l, m, s, e) :
        l \in 1..n, s \in substrs, e \in 1..n}

\* lines for the column recovery: each pattern present, absent, present twice
ResolveLines ==
    { <<Backtick, "@", "a", "b">>,
      <<"@", "a", " ", Backtick, "@", "{", "a", "b", "}">>,
      <<"a", "[", "a", "b", "]", "[", "a", "b", "]">>,
      <<"a", "'", "@", "'", "@">>,
      <<"a", Backtick, "@", "a", " ", Backtick, "@", "a">>,
      <<Backtick, "@", "{", "a">>,
      <<"a", " ", "b">> }

---------------------------------------------------------------------------
(* _syntax_error_to_diagnostic alone: any document of ResolveLines, any    *)
(* error against one of its lines.                                         *)

NoError == SyntaxErr("other", 0, 0, <<>>, 0)
NoOutcome == Raised("not called")
NoResult == [raised |-> FALSE, exc |-> "not returned", tokens |-> <<>>,
             diagnostics |-> <<>>]
NoPrev == [called |-> FALSE, text_doc |-> [source |-> <<>>, uri |-> Uri],
           result |-> NoResult]

InitResolve ==
    /\ text_doc \in Documents(ResolveLines, MaxLines)
    /\ source = splitlines(text_doc.source)
    /\ error \in ErrorsFor(Len(source), 1, Substrs)
    /\ outcome = NoOutcome
    /\ pc = "resolve"
    /\ line_num = 0
    /\ detail_ret = None
    /\ details = <<>>
    /\ err_mngr = error_mngr
    /\ diagnostics = <<>>
    /\ macro_dictionary = <<>>
    /\ result = NoResult
    /\ calls = <<>>
    /\ prev = NoPrev

Resolve ==
    /\ pc = "resolve"
    /\ outcome' = _syntax_error_to_diagnostic(error, source, text_doc.uri)
    /\ pc' = "resolved"
    /\ UNCHANGED <<text_doc, source, line_num, detail_ret, details, err_mngr,
                   diagnostics, macro_dictionary, result, calls, prev, error>>

NextResolve == Resolve

SpecResolve == InitResolve /\ [][NextResolve]_vars

---------------------------------------------------------------------------
(* validate_syntax. *)

\* the dictionary left as the last call left it
KeepMacroDictionary(old) == old

\* lines 48-50: the macro dictionary of the parser, emptied
ResetMacroDictionary(old) == <<>>

\* lines 43-56: the start of a call on document doc
Validate(doc) ==
    /\ text_doc' = doc
    /\ source' = splitlines(doc.source)
    /\ details' = <<>>
    /\ diagnostics' = <<>>
    /\ macro_dictionary' = ResetMacroDictionary(macro_dictionary)
    /\ err_mngr' = error_mngr
    /\ detail_ret' = None
    /\ line_num' = 0
    /\ calls' = <<>>
    /\ result' = NoResult
    /\ pc' = "tokenize"

\* only the empty line skipped
IsSkippedEmptyOnly(line) == line = <<>>

\* line 58: the line is not passed to the parser
IsSkipped(line) == strip(line) = <<>>

\* lines 60-62: the token list after the parser returned ret
AppendNovel(toks, ret) ==
    IF ret.type = "detail_return" /\ ret.is_novel
    THEN Append(toks, ret.detail) ELSE toks

\* lines 57-58: an iteration of the loop over a blank line
BlankLine ==
    /\ pc = "tokenize"
    /\ line_num < Len(source)
    /\ IsSkipped(source[line_num + 1])
    /\ line_num' = line_num + 1
    /\ UNCHANGED <<text_doc, source, pc, detail_ret, details, err_mngr,
                   diagnostics, macro_dictionary, result, calls, prev, error,
                   outcome>>

\* the argument list of line 59
FromLineCall(line, lineno, previous, ret) ==
    [line |-> line, lineno |-> lineno, previous |-> previous, ret |-> ret]

\* lines 57-62: an iteration over a line with content, the parser having
\* returned ret, recorded errs and raised the flag or not (major)
TokenizeLine(ret, errs, major, dict) ==
    /\ detail_ret' = ret
    /\ details' = AppendNovel(details, ret)
    /\ err_mngr' = [add_all(err_mngr, errs) EXCEPT
                      !.has_major_parsing = @ \/ major]
    /\ macro_dictionary' = dict
    /\ calls' = Append(calls, FromLineCall(source[line_num + 1],
                                           line_num + 1, detail_ret, ret))
    /\ line_num' = line_num + 1
    /\ UNCHANGED <<text_doc, source, pc, diagnostics, result, prev, error,
                   outcome>>

\* what a parser may return for line lineno
ParserReturns(lineno) ==
    {None, detail_return(TRUE, lineno), detail_return(FALSE, lineno)}

\* the errors the parser of the driver records against the lines it has been
\* given so far: one of a kind that is not refined, a duplicate of the macro
\* of line 1, and a duplicate whose name is pattern syntax
DriverErrors(lineno) ==
    {SyntaxErr("other", l, 0, <<>>, 0) : l \in 1..lineno}
    \cup {SyntaxErr("duplicated_macro", l, 0, s, 1) :
            l \in 1..lineno, s \in {<<"a">>, <<"(">>}}

\* what a parser may record in one call, the collector holding have errors;
\* the message of an error is its number in the order of recording
Recordings(lineno, have) ==
    UNION {[1..k -> DriverErrors(lineno)] : k \in 0..(MaxErrs - have)}

Numbered(es, have) == [k \in 1..Len(es) |-> [es[k] EXCEPT !.msg = have + k]]

\* line 59 with a parser of which nothing is known
FromLine ==
    /\ pc = "tokenize"
    /\ line_num < Len(source)
    /\ ~IsSkipped(source[line_num + 1])
    /\ \E ret \in ParserReturns(line_num + 1), major \in BOOLEAN,
          es \in Recordings(line_num + 1, NumErrors(err_mngr)) :
            TokenizeLine(ret, Numbered(es, NumErrors(err_mngr)), major,
                         macro_dictionary)

\* line 72: a Diagnostic is an object without length or truth value of its
\* own, and so it is true
Truthy(diag) == TRUE

\* lines 69-73: the diagnostics of errs appended to diags in order; the first
\* error whose conversion raises ends the loop
RECURSIVE ConvertErrors(_, _, _, _)
ConvertErrors(errs, src, uri, diags) ==
    IF errs = <<>> THEN [raised |-> FALSE, exc |-> "", diags |-> diags]
    ELSE LET r == _syntax_error_to_diagnostic(Head(errs), src, uri)
         IN IF r.raised
            THEN [raised |-> TRUE, exc |-> r.exc, diags |-> diags]
            ELSE ConvertErrors(Tail(errs), src, uri,
                    IF Truthy(r.diag) THEN Append(diags, r.diag) ELSE diags)

\* the rows in ascending order of their line numbers
RowOrderSorted(coll) ==
    [k \in 1..Len(coll) |->
        coll[CHOOSE j \in 1..Len(coll) :
                Cardinality({i \in 1..Len(coll) :
                                coll[i].lineno < coll[j].lineno}) = k - 1]]

\* line 69: the order the rows of the collector are visited in
RowOrder(coll) == coll

\* the token list kept whatever the flag
FinalDetailsKept(mngr, toks) == toks

\* lines 76-77
FinalDetails(mngr, toks) == IF mngr.has_major_parsing THEN <<>> ELSE toks

\* lines 64-80: the conversion of the errors, and the return
Convert ==
    /\ pc = "tokenize"
    /\ line_num = Len(source)
    /\ LET c == ConvertErrors(Rows(RowOrder(err_mngr.coll)), source,
                              text_doc.uri, diagnostics)
       IN /\ diagnostics' = c.diags
          /\ IF c.raised
             THEN /\ pc' = "raised"
                  /\ details' = details
                  /\ result' = [raised |-> TRUE, exc |-> c.exc,
                                tokens |-> <<>>, diagnostics |-> <<>>]
             ELSE /\ pc' = "done"
                  /\ details' = FinalDetails(err_mngr, details)
                  /\ result' = [raised |-> FALSE, exc |-> "",
                                tokens |-> FinalDetails(err_mngr, details),
                                diagnostics |-> c.diags]
    /\ UNCHANGED <<text_doc, source, line_num, detail_ret, err_mngr,
                   macro_dictionary, calls, prev, error, outcome>>

\* lines with and without content
DriverLines == { <<>>, <<" ">>, <<Backtick, "@", "a">> }

Init ==
    /\ text_doc = [source |-> <<>>, uri |-> Uri]
    /\ source = <<>>
    /\ pc = "idle"
    /\ line_num = 0
    /\ detail_ret = None
    /\ details = <<>>
    /\ err_mngr = error_mngr
    /\ diagnostics = <<>>
    /\ macro_dictionary = <<>>
    /\ result = NoResult
    /\ calls = <<>>
    /\ prev = NoPrev
    /\ error = NoError
    /\ outcome = NoOutcome

\* a call of validate_syntax
Call ==
    /\ pc = "idle"
    /\ \E doc \in Terminated(DriverLines, MaxLines) : Validate(doc)
    /\ UNCHANGED <<prev, error, outcome>>

Next == Call \/ BlankLine \/ FromLine \/ Convert

Spec == Init /\ [][Next]_vars

---------------------------------------------------------------------------
(* Calls one after another, with a parser that is a function of what it is *)
(* given and of the macro dictionary: a line that starts with the marker   *)
(* defines a macro, and defining it again is an error that names the line  *)
(* of the first definition; a line that starts with an at sign produces a  *)
(* novel token; any other text continues the token before it, and is an    *)
(* error, and a major failure, when there is none.                         *)

StartsWith(s, prefix) ==
    Len(s) >= Len(prefix) /\ SubSeq(s, 1, Len(prefix)) = prefix

\* the characters of s up to the first blank
RECURSIVE Word(_)
Word(s) ==
    IF s = <<>> \/ Head(s) \in Whitespace THEN <<>>
    ELSE <<Head(s)>> \o Word(Tail(s))

Defined(dict, name) == \E k \in 1..Len(dict) : dict[k].name = name
DefinitionLine(dict, name) ==
    dict[CHOOSE k \in 1..Len(dict) : dict[k].name = name].lineno

Parsed(ret, errs, major, dict) ==
    [ret |-> ret, errs |-> errs, major |-> major, dict |-> dict]

\* detail.FromLine(line, lineno, previous, err_mngr), the dictionary dict
ParseLine(line, lineno, previous, dict) ==
    LET text == strip(line)
        name == Word(SubSeq(text, 3, Len(text)))
    IN
    IF StartsWith(text, <<Backtick, "@">>)
    THEN IF Defined(dict, name)
         THEN Parsed(None,
                     <<SyntaxErr("duplicated_macro", lineno, lineno, name,
                                 DefinitionLine(dict, name))>>,
                     FALSE, dict)
         ELSE Parsed(None, <<>>, FALSE,
                     Append(dict, [name |-> name, lineno |-> lineno]))
    ELSE IF StartsWith(text, <<"@">>)
    THEN Parsed(detail_return(TRUE, lineno), <<>>, FALSE, dict)
    ELSE IF previous.type = "detail_return"
    THEN Parsed(detail_return(FALSE, previous.detail), <<>>, FALSE, dict)
    ELSE Parsed(None, <<SyntaxErr("other", lineno, lineno, <<>>, 0)>>,
                TRUE, dict)

\* line 59 with this parser
FromLineParsed ==
    /\ pc = "tokenize"
    /\ line_num < Len(source)
    /\ ~IsSkipped(source[line_num + 1])
    /\ LET p == ParseLine(source[line_num + 1], line_num + 1, detail_ret,
                          macro_dictionary)
       IN TokenizeLine(p.ret, p.errs, p.major, p.dict)

\* a macro definition, a token, a continuation, a line of blanks
RepeatLines == { <<Backtick, "@", "a">>, <<"@", "a">>, <<"a">>, <<" ">> }

\* a call of validate_syntax, the first or one after another has ended
CallAgain ==
    /\ pc \in {"idle", "done", "raised"}
    /\ \E doc \in Terminated(RepeatLines, MaxLines) : Validate(doc)
    /\ prev' = [called |-> pc # "idle", text_doc |-> text_doc,
                result |-> result]
    /\ UNCHANGED <<error, outcome>>

NextRepeat == CallAgain \/ BlankLine \/ FromLineParsed \/ Convert

SpecRepeat == Init /\ [][NextRepeat]_vars

---------------------------------------------------------------------------
(* What the properties are stated with. *)

\* the characters of line from offset s up to offset e
TextAt(line, s, e) == SubSeq(line, s + 1, e)

\* txt is an instance of sub, a "." of sub standing for any one character
Fits(sub, txt) ==
    /\ Len(txt) = Len(sub)
    /\ \A k \in 1..Len(sub) : sub[k] = "." \/ sub[k] = txt[k]

IsName(sub) == \A k \in 1..Len(sub) : sub[k] \notin {".", "("}

\* the text an error of this kind points at lies at offsets s..e of line
Occurs(kind, substr, line, s, e) ==
    /\ 0 <= s /\ s <= e /\ e <= Len(line)
    /\ CASE kind = "unexpected_macro" ->
              /\ Fits(substr, TextAt(line, s, e))
              /\ \/ s >= 2 /\ TextAt(line, s - 2, s) = <<Backtick, "@">>
                 \/ /\ s >= 3
                    /\ TextAt(line, s - 3, s) = <<Backtick, "@", "{">>
                    /\ e < Len(line) /\ line[e + 1] = "}"
         [] kind = "duplicated_macro" ->
              /\ e - s >= 2
              /\ TextAt(line, s, s + 2) = <<Backtick, "@">>
              /\ Fits(substr, TextAt(line, s + 2, e))
         [] kind = "remaining_template" ->
              e = s + 4 /\ line[s + 1] = "[" /\ line[e] = "]"
         [] kind = "no_desc" ->
              /\ e - s >= 1
              /\ line[s + 1] = "@"
              /\ Fits(substr, TextAt(line, s + 1, e))
         [] kind = "wrong_macro_token" ->
              TextAt(line, s, e) = <<"'", "@">>
         [] OTHER -> FALSE

Spans(line) == (0..Len(line)) \X (0..Len(line))

Found(kind, substr, line) ==
    \E p \in Spans(line) : Occurs(kind, substr, line, p[1], p[2])

\* the occurrence that starts first
Leftmost(kind, substr, line) ==
    CHOOSE p \in Spans(line) :
        /\ Occurs(kind, substr, line, p[1], p[2])
        /\ \A q \in Spans(line) :
              Occurs(kind, substr, line, q[1], q[2]) => p[1] <= q[1]

FullLine(l) == Range(Position(l, 0), Position(l + 1, 0))

SingleLineKinds ==
    {"unexpected_macro", "remaining_template", "no_desc", "wrong_macro_token"}

\* the lone call returned a diagnostic
Resolved == pc = "resolved" /\ ~outcome.raised

\* the pattern of the error is absent where it is searched
NotFound(err, src) ==
    CASE err.kind = "other" -> TRUE
      [] err.kind = "duplicated_macro" ->
           \/ ~Found(err.kind, err.substr, src[err.earlier_lineno])
           \/ ~Found(err.kind, err.substr, src[err.lineno])
      [] OTHER -> ~Found(err.kind, err.substr, src[err.lineno])

---------------------------------------------------------------------------
(* Properties of _syntax_error_to_diagnostic, under SpecResolve. *)

\* C7: an error of a kind that is not refined, or whose pattern is absent
\* (for a duplicated macro: absent from the earlier line or from the
\* offending line), gets the range of its whole line, (line, 0) to
\* (line + 1, 0), and no related information.
C7_GracefulDegradation ==
    (Resolved /\ NotFound(error, source))
        => /\ outcome.diag.range = FullLine(error.lineno - 1)
           /\ outcome.diag.related_information = NoRelated

\* a duplicated macro found on the earlier line and not on the offending one
C7_Witness ==
    /\ Resolved
    /\ error.kind = "duplicated_macro"
    /\ Found(error.kind, error.substr, source[error.earlier_lineno])
    /\ ~Found(error.kind, error.substr, source[error.lineno])
    /\ outcome.diag.range = FullLine(error.lineno - 1)

RECURSIVE LspLinesFrom(_, _, _)
LspLinesFrom(text, i, cur) ==
    IF i > Len(text) THEN <<cur>>
    ELSE IF text[i] = LF
         THEN <<cur>> \o LspLinesFrom(text, i + 1, <<>>)
         ELSE LspLinesFrom(text, i + 1, Append(cur, text[i]))

LspLines(doc) == LspLinesFrom(doc.source, 1, <<>>)

\* the position is one of the document
InDocument(pos, doc) ==
    /\ 0 <= pos.line /\ pos.line < Len(LspLines(doc))
    /\ 0 <= pos.character
    /\ pos.character <= Len(LspLines(doc)[pos.line + 1])

RangeInDocument(r, doc) == InDocument(r.start, doc) /\ InDocument(r.end, doc)

RelatedInDocument(d, doc) ==
    \A k \in 1..Len(d.related_information) :
        RangeInDocument(d.related_information[k].location.range, doc)

\* C4 as stated: the range of every diagnostic, and of every related
\* location, starts and ends at a position of the document.
C4_RangeContainment ==
    Resolved => /\ RangeInDocument(outcome.diag.range, text_doc)
                /\ RelatedInDocument(outcome.diag, text_doc)

\* C4 amended: as stated, but for the end of a whole-line range of the last
\* line of a document that does not end with a line feed: it is
\* (line + 1, 0), one line past the last line.
C4_RangeContainmentAmended ==
    Resolved =>
        LET d == outcome.diag IN
        /\ InDocument(d.range.start, text_doc)
        /\ \/ InDocument(d.range.end, text_doc)
           \/ /\ d.range = FullLine(error.lineno - 1)
              /\ error.lineno = Len(LspLines(text_doc))
        /\ RelatedInDocument(d, text_doc)

\* a narrowed range that ends with the last line of a document
C4_Witness ==
    /\ Resolved
    /\ error.lineno = Len(LspLines(text_doc))
    /\ outcome.diag.range # FullLine(error.lineno - 1)
    /\ outcome.diag.range.end.character = Len(source[error.lineno])

---------------------------------------------------------------------------
(* Properties of validate_syntax, under Spec. *)

\* the errors the parser recorded; the message of each is its number in the
\* order of recording
RecordedErrors ==
    {Rows(err_mngr.coll)[k] : k \in 1..Len(Rows(err_mngr.coll))}

ErrorOf(d) == CHOOSE e \in RecordedErrors : e.msg = d.message

\* the diagnostics made from error e
DiagnosticsOf(e) ==
    {k \in 1..Len(result.diagnostics) :
        result.diagnostics[k].message = e.msg}

RangeHasLine(r, l) == r.start.line <= l /\ l <= r.end.line

\* the tokens of the calls that returned a novel production, in call order
RECURSIVE NovelTokens(_)
NovelTokens(cs) ==
    IF cs = <<>> THEN <<>>
    ELSE LET r == cs[Len(cs)].ret
             before == NovelTokens(SubSeq(cs, 1, Len(cs) - 1))
         IN IF r # None /\ r.is_novel THEN before \o <<r.detail>> ELSE before

\* C1 as stated: when validate_syntax returns, every recorded error has
\* exactly one diagnostic, with the error's kind as code and a range that
\* contains the error's own line, lineno - 1.
C1_Completeness ==
    pc = "done" =>
        \A e \in RecordedErrors :
            /\ Cardinality(DiagnosticsOf(e)) = 1
            /\ \A k \in DiagnosticsOf(e) :
                  /\ result.diagnostics[k].code = e.kind
                  /\ RangeHasLine(result.diagnostics[k].range, e.lineno - 1)

\* C2: what validate_syntax returns: no token when the flag of the collector
\* is set, whatever the parser produced, and else the novel tokens in the
\* order produced; in both cases as many diagnostics as recorded errors, one
\* for each.
C2_MajorFailure ==
    pc = "done" =>
        /\ result.tokens = IF err_mngr.has_major_parsing THEN <<>>
                           ELSE NovelTokens(calls)
        /\ Len(result.diagnostics) = Cardinality(RecordedErrors)
        /\ \A e \in RecordedErrors : DiagnosticsOf(e) # {}

\* the flag set, novel tokens produced, errors recorded
C2_Witness ==
    /\ pc = "done"
    /\ err_mngr.has_major_parsing
    /\ NovelTokens(calls) # <<>>
    /\ RecordedErrors # {}
    /\ result.tokens = <<>>
    /\ result.diagnostics # <<>>

\* the line numbers of the diagnostics never decrease, and on one line the
\* diagnostics are in the order of recording
AscendingByLine ==
    \A i, j \in 1..Len(result.diagnostics) :
        i < j =>
            LET a == ErrorOf(result.diagnostics[i])
                b == ErrorOf(result.diagnostics[j])
            IN \/ a.lineno < b.lineno
               \/ a.lineno = b.lineno /\ a.msg < b.msg

FirstRecorded(l) ==
    CHOOSE m \in {e.msg : e \in RecordedErrors} :
        /\ \E e \in RecordedErrors : e.msg = m /\ e.lineno = l
        /\ \A e \in RecordedErrors : e.lineno = l => m <= e.msg

C5_NoException == pc # "raised"

HasContent(line) == \E k \in 1..Len(line) : line[k] \notin Whitespace

\* C10: at every point of the loop the parser has been called once for each
\* line with content among the lines visited, in ascending order, and for no
\* other: with the text of the line, its index + 1, the value the previous
\* call returned (None for the first) and the token list holds the tokens of
\* the novel productions; a document without content ends with no call, no
\* token and no diagnostic.
C10_DriverProtocol ==
    pc \in {"tokenize", "done", "raised"} =>
        /\ {calls[k].lineno : k \in 1..Len(calls)}
              = {i \in 1..line_num : HasContent(source[i])}
        /\ \A k \in 1..Len(calls) :
              /\ calls[k].line = source[calls[k].lineno]
              /\ k > 1 => calls[k - 1].lineno < calls[k].lineno
              /\ calls[k].previous = IF k = 1 THEN None ELSE calls[k - 1].ret
        /\ detail_ret = IF calls = <<>> THEN None ELSE calls[Len(calls)].ret
        /\ pc = "tokenize" => details = NovelTokens(calls)
        /\ (pc = "done" /\ \A i \in 1..Len(source) : ~HasContent(source[i]))
              => /\ calls = <<>>
                 /\ result.tokens = <<>>
                 /\ result.diagnostics = <<>>

\* a line of blanks counted and not passed, the line after it passed with
\* index + 1 and its novel token kept
C10_Witness ==
    /\ pc = "done"
    /\ Len(source) = 2
    /\ source[1] = <<" ">>
    /\ Len(calls) = 1
    /\ calls[1].lineno = 2
    /\ result.tokens = <<2>>

---------------------------------------------------------------------------
(* Property of consecutive calls, under SpecRepeat. *)

\* C6: a call on the document of the call before it returns what that call
\* returned, tokens and diagnostics, whatever was validated earlier.
C6_Idempotence ==
    (/\ pc \in {"done", "raised"}
     /\ prev.called
     /\ prev.text_doc = text_doc)
        => result = prev.result

\* the same document twice, with a macro defined twice in it
C6_Witness ==
    /\ pc = "done"
    /\ prev.called
    /\ prev.text_doc = text_doc
    /\ result.diagnostics # <<>>
    /\ macro_dictionary # <<>>

=============================================================================
